---- MODULE Spec2Model ----
(***************************************************************************)
(* rust-openfire-auth: the authentication state machine (auth.rs), the     *)
(* OpenFireClient session with its event channel (communication.rs) and    *)
(* the handle registry of the JNI boundary (jni_interface.rs).             *)
(*                                                                         *)
(* Strings are sequences of tokens (a username is a sequence of            *)
(* characters, a message a sequence of fragments), so that format!,        *)
(* is_empty, contains and split are computed, not assumed.                 *)
(* Option<T> is a sequence of length 0 (None) or 1 (Some).                 *)
(* A HashMap is a function whose DOMAIN is its key set.                    *)
(***************************************************************************)
EXTENDS Integers, Sequences, FiniteSets, TLC

\* ------------------------------------------------------------------ bounds
\* JNI threads calling the boundary concurrently.
NumThreads == 2
\* createClient is not called once CLIENT_COUNTER has reached this.
MaxHandles == 2
\* A call that can emit an event starts only while fewer were emitted.
MaxEvents == 3
\* set_event_callback is not called once a session has this many channels.
MaxCallbacks == 2
\* The clock (seconds since the epoch, from the first call) stops here.
MaxClock == 1
\* A boundary call that can emit starts only while the registry's sessions
\* have emitted fewer events than this, all together.
MaxJniEvents == 2
\* A send starts only while fewer message ids have been returned.
MaxSends == 2

\* ----------------------------------------------------------------- options
None == <<>>
Some(x) == <<x>>
IsSome(o) == o # None
Unwrap(o) == o[1]

\* ------------------------------------------------------------------ strings
S_testuser == <<"t", "e", "s", "t", "u", "s", "e", "r">>
S_invalid == <<"i", "n", "v", "a", "l", "i", "d">>
S_testpass == <<"t", "e", "s", "t", "p", "a", "s", "s">>
S_wrong == <<"w", "r", "o", "n", "g">>
S_localhost == <<"l", "o", "c", "a", "l", "h", "o", "s", "t">>
S_example == <<"e", "x", ".", "o", "r", "g">>
S_unknown_at_localhost == <<"u", "n", "k", "n", "o", "w", "n", "@">> \o S_localhost
S_room == <<"r", "o", "o", "m", "@", "c", "o", "n", "f">>
S_lobby == <<"l", "o", "b", "b", "y">>
S_nick == <<"n", "i", "c", "k">>
S_nick2 == <<"n", "2">>
S_bob == <<"b", "o", "b", "@">> \o S_localhost
S_brb == <<"b", "r", "b">>

\* str::is_empty
is_empty(s) == Len(s) = 0
\* str::contains(char)
contains(s, ch) == \E i \in 1..Len(s) : s[i] = ch
\* str.split(ch).next(): the part before the first ch (the whole string if none)
RECURSIVE split_next(_, _)
split_next(s, ch) ==
    IF s = <<>> \/ Head(s) = ch THEN <<>> ELSE <<Head(s)>> \o split_next(Tail(s), ch)

\* ------------------------------------------------------------------ results
Ok(v) == <<"Ok", v>>
Err(kind, message) == <<"Err", kind, message>>
IsOk(r) == r[1] = "Ok"
IsErr(r) == r[1] = "Err"
Unit == <<>>

\* #[error("...")] Display of OpenFireError
to_string(e) ==
    CASE e[2] = "AuthenticationFailed" -> <<"Authentication failed: ">> \o e[3]
      [] e[2] = "ConnectionError" -> <<"Connection error: ">> \o e[3]
      [] e[2] = "XmppProtocolError" -> <<"XMPP protocol error: ">> \o e[3]
      [] e[2] = "ConfigError" -> <<"Configuration error: ">> \o e[3]
      [] e[2] = "TimeoutError" ->
            <<"Timeout error: operation timed out after ">> \o e[3] \o <<" seconds">>
      [] e[2] = "InvalidCredentials" -> <<"Invalid credentials: ">> \o e[3]
      [] OTHER -> <<"Unknown error: ">> \o e[3]

\* ------------------------------------------------------------------- config
DefaultConfig ==
    [server |-> S_localhost, port |-> 5222, domain |-> S_localhost,
     use_tls |-> TRUE, verify_certificates |-> TRUE,
     connection_timeout |-> 30, auth_timeout |-> 10,
     resource |-> <<"SparkRust">>, priority |-> 1]

\* (mutant: a zero timeout passes)
ConfigValidate_accepts_zero_timeout(cfg) ==
    IF is_empty(cfg.server) THEN Err("ConfigError", <<"Server cannot be empty">>)
    ELSE IF is_empty(cfg.domain) THEN Err("ConfigError", <<"Domain cannot be empty">>)
    ELSE IF cfg.port = 0 THEN Err("ConfigError", <<"Port must be greater than 0">>)
    ELSE IF cfg.priority < -128 \/ cfg.priority > 127
         THEN Err("ConfigError", <<"Priority must be between -128 and 127">>)
    ELSE Ok(Unit)
\* Config::validate
ConfigValidate(cfg) ==
    IF is_empty(cfg.server) THEN Err("ConfigError", <<"Server cannot be empty">>)
    ELSE IF is_empty(cfg.domain) THEN Err("ConfigError", <<"Domain cannot be empty">>)
    ELSE IF cfg.port = 0 THEN Err("ConfigError", <<"Port must be greater than 0">>)
    ELSE IF cfg.connection_timeout = 0 \/ cfg.auth_timeout = 0
         THEN Err("ConfigError", <<"Timeout values must be greater than 0">>)
    ELSE IF cfg.priority < -128 \/ cfg.priority > 127
         THEN Err("ConfigError", <<"Priority must be between -128 and 127">>)
    ELSE Ok(Unit)

\* -------------------------------------------------------------- credentials
Credentials_new(username, password) ==
    [username |-> username, password |-> password, domain |-> None]
Credentials_with_domain(username, password, domain) ==
    [username |-> username, password |-> password, domain |-> Some(domain)]

\* (mutant: the domain override is ignored)
get_jid_default_only(creds, default_domain) ==
    creds.username \o <<"@">> \o default_domain
\* Credentials::get_jid
get_jid(creds, default_domain) ==
    creds.username \o <<"@">> \o
        (IF IsSome(creds.domain) THEN Unwrap(creds.domain) ELSE default_domain)

\* (mutant: '@' in the username passes)
validate_allows_at(creds) ==
    IF is_empty(creds.username)
    THEN Err("InvalidCredentials", <<"Username cannot be empty">>)
    ELSE IF is_empty(creds.password)
    THEN Err("InvalidCredentials", <<"Password cannot be empty">>)
    ELSE IF contains(creds.username, " ")
    THEN Err("InvalidCredentials", <<"Username contains invalid characters">>)
    ELSE Ok(Unit)
\* Credentials::validate
validate(creds) ==
    IF is_empty(creds.username)
    THEN Err("InvalidCredentials", <<"Username cannot be empty">>)
    ELSE IF is_empty(creds.password)
    THEN Err("InvalidCredentials", <<"Password cannot be empty">>)
    ELSE IF contains(creds.username, " ") \/ contains(creds.username, "@")
    THEN Err("InvalidCredentials", <<"Username contains invalid characters">>)
    ELSE Ok(Unit)

\* --------------------------------------------------------------- auth state
Disconnected == <<"Disconnected">>
Connecting == <<"Connecting">>
Authenticating == <<"Authenticating">>
Authenticated == <<"Authenticated">>
Failed(reason) == <<"Failed", reason>>
IsFailed(st) == st[1] = "Failed"

AuthResult_success(full_jid, session_id, auth_time_ms) ==
    [success |-> TRUE, message |-> <<"Authentication successful">>,
     full_jid |-> Some(full_jid), session_id |-> session_id,
     auth_time_ms |-> auth_time_ms]
AuthResult_failure(message, auth_time_ms) ==
    [success |-> FALSE, message |-> message, full_jid |-> None,
     session_id |-> None, auth_time_ms |-> auth_time_ms]

\* The simulated delay of the exchange, and an elapsed time past the
\* configured timeout (the measured time depends on the scheduler).
ElapsedSamples(cfg) == {500, cfg.auth_timeout * 1000 + 1}

\* AuthManager::perform_authentication after its sleep: the exchange's outcome
perform_authentication_result(cfg, creds, auth_time_ms) ==
    IF creds.username = S_invalid
    THEN Err("AuthenticationFailed", <<"Invalid username">>)
    ELSE IF creds.password = S_wrong
    THEN Err("AuthenticationFailed", <<"Invalid password">>)
    ELSE IF auth_time_ms > cfg.auth_timeout * 1000
    THEN Err("TimeoutError", <<ToString(cfg.auth_timeout)>>)
    ELSE Ok(AuthResult_success(get_jid(creds, cfg.domain),
                               Some(<<"session_", "uuid-">>), auth_time_ms))

\* ------------------------------------------------------ session data values
Presence_new(jid, status, timestamp) ==
    [jid |-> jid, status |-> status, status_message |-> None, priority |-> 0,
     timestamp |-> timestamp]
with_message(presence, message) ==
    [presence EXCEPT !.status_message = Some(message)]

PresenceStatus ==
    {"Available", "Away", "ExtendedAway", "DoNotDisturb", "Unavailable", "Invisible"}

\* (mutant: insert keeps the value of a key that is already there)
insert_keeps_existing(m, k, v) ==
    [x \in DOMAIN m \cup {k} |-> IF x \in DOMAIN m THEN m[x] ELSE v]
\* HashMap::insert / remove / contains_key
insert(m, k, v) == [x \in DOMAIN m \cup {k} |-> IF x = k THEN v ELSE m[x]]
remove(m, k) == [x \in DOMAIN m \ {k} |-> m[x]]
contains_key(m, k) == k \in DOMAIN m
EmptyMap == <<>>

\* OpenFireClient::new
OpenFireClient_new(cfg) ==
    [config |-> cfg, auth_state |-> Disconnected, auth_lock |-> None,
     is_connected |-> FALSE, current_presence |-> None,
     contacts |-> EmptyMap, chat_rooms |-> EmptyMap, event_tx |-> None]

\* mpsc::unbounded_channel() with its spawned delivery task
\* queue: sent, not yet received; cur: the event the callback is running on;
\* got: the events the callback has been invoked with; open: a sender exists;
\* since: how many events the session had emitted when it was installed
NewChannel(since) ==
    [queue |-> <<>>, cur |-> None, got |-> <<>>, open |-> TRUE, since |-> since]

\* ==================================================================== state
VARIABLES
    CLIENT_COUNTER,  \* the handle counter
    CLIENTS,         \* the keys of the registry map; the value of h is client[h]
    counter_lock,    \* holder of Mutex<i64>, or None
    clients_lock,    \* holder of Mutex<HashMap<..>>, or None
    client,          \* client[s]: Option of the OpenFireClient object s
    channels,        \* channels[s]: the event channels session s has created
    emitted,         \* emitted[s]: the events passed to emit_event, in order
    now,             \* SystemTime::now() in seconds
    proc,            \* per caller: position, call, locals, result
    created,         \* the handles createClient has returned, in order
    sent,            \* the message ids the sends have returned, in order
    ret              \* the value an entry point returns in this step, or None

vars == <<CLIENT_COUNTER, CLIENTS, counter_lock, clients_lock, client, channels,
          emitted, now, proc, created, sent, ret>>

\* Process 0 owns client 0 directly (a Rust caller of the library, as in the
\* crate's tests); processes 1..NumThreads are JNI threads, which reach the
\* clients 1..MaxHandles through the registry only.
Owner == 0
Threads == 1..NumThreads
Procs == 0..NumThreads
SessionIds == 0..MaxHandles

Idle == [pc |-> "idle", op |-> "", h |-> 0, arg |-> <<>>, loc |-> <<>>,
         res |-> <<>>, pre |-> <<>>]

Cl(s) == client[s][1]
Tgt(p) == proc[p].h
Me(p) == Cl(Tgt(p))
\* the client and the number of emitted events when the call reached the session
Snapshot(s) == <<Cl(s), Len(emitted[s])>>

SetClient(s, c) == [client EXCEPT ![s] = Some(c)]
Goto(p, pc, loc) == [proc EXCEPT ![p].pc = pc, ![p].loc = loc]
Return(p, res) == [proc EXCEPT ![p].pc = "op_done", ![p].loc = <<>>, ![p].res = res]

NotConnected == Err("ConnectionError", <<"Not connected to server">>)

\* (mutant: one event sender shared by all clients)
emit_event_shared(s, c, event) ==
    /\ emitted' = [g \in DOMAIN emitted |->
                      IF IsSome(client[g]) THEN Append(emitted[g], event) ELSE emitted[g]]
    /\ channels' =
          IF IsSome(c.event_tx)
          THEN [channels EXCEPT ![s][Unwrap(c.event_tx)].queue = Append(@, event)]
          ELSE channels
\* OpenFireClient::emit_event: send on the channel if there is one
emit_event(s, c, event) ==
    /\ emitted' = [emitted EXCEPT ![s] = Append(@, event)]
    /\ channels' =
          IF IsSome(c.event_tx)
          THEN [channels EXCEPT ![s][Unwrap(c.event_tx)].queue = Append(@, event)]
          ELSE channels

\* =============================================================== AuthManager
\* (mutant: Connecting is stored before the credentials are validated)
authenticate_entry_before_validate(st, v) == Connecting
\* (mutant: authenticate goes straight to Authenticating)
authenticate_entry_skips_connecting(st, v) == IF IsErr(v) THEN st ELSE Authenticating
\* authenticate, up to `self.state = AuthState::Connecting`: the state after
\* credentials.validate()? returned v
authenticate_entry(st, v) == IF IsErr(v) THEN st ELSE Connecting

\* (mutant: a timed-out exchange leaves the state as it is)
authenticate_state_timeout_unset(r) ==
    IF IsOk(r) THEN Authenticated
    ELSE IF r[2] = "TimeoutError" THEN Authenticating
    ELSE Failed(<<"Authentication failed: ">> \o to_string(r))
\* (mutant: the Err arm does not store Failed)
authenticate_state_err_arm_unset(r) == IF IsOk(r) THEN Authenticated ELSE Authenticating
\* (mutant: the Err arm returns the error to the caller)
authenticate_result_propagates(r, elapsed_ms) == r
\* authenticate's match on perform_authentication's result r:
\* the state it stores and the Result it returns
authenticate_state(r) ==
    IF IsOk(r) THEN Authenticated
    ELSE Failed(<<"Authentication failed: ">> \o to_string(r))
authenticate_result(r, elapsed_ms) ==
    IF IsOk(r) THEN r
    ELSE Ok(AuthResult_failure(<<"Authentication failed: ">> \o to_string(r), elapsed_ms))

\* connect: auth_manager.lock().await, then authenticate: validate, Connecting
Authenticate(p) ==
    /\ proc[p].pc = "connect"
    /\ Me(p).auth_lock = None
    /\ LET v == validate(proc[p].arg)
           c == [Me(p) EXCEPT !.auth_lock = Some(p),
                              !.auth_state = authenticate_entry(@, v)]
       IN /\ client' = SetClient(Tgt(p), c)
          /\ proc' = IF IsErr(v) THEN Goto(p, "auth_returned", v)
                     ELSE Goto(p, "perform_authentication", <<>>)
    /\ UNCHANGED <<CLIENT_COUNTER, CLIENTS, counter_lock, clients_lock, channels,
                   emitted, now, created, sent>>
    /\ ret' = None

\* perform_authentication: Authenticating, then the simulated delay
PerformAuthentication(p) ==
    /\ proc[p].pc = "perform_authentication"
    /\ client' = SetClient(Tgt(p), [Me(p) EXCEPT !.auth_state = Authenticating])
    /\ proc' = Goto(p, "auth_sleep", <<>>)
    /\ UNCHANGED <<CLIENT_COUNTER, CLIENTS, counter_lock, clients_lock, channels,
                   emitted, now, created, sent>>
    /\ ret' = None

\* the delay is over: the exchange's outcome, and authenticate's match on it
AuthExchange(p) ==
    /\ proc[p].pc = "auth_sleep"
    /\ \E ms \in ElapsedSamples(Me(p).config) :
          LET r == perform_authentication_result(Me(p).config, proc[p].arg, ms)
          IN /\ client' = SetClient(Tgt(p),
                              [Me(p) EXCEPT !.auth_state = authenticate_state(r)])
             /\ proc' = Goto(p, "auth_returned", authenticate_result(r, ms))
    /\ UNCHANGED <<CLIENT_COUNTER, CLIENTS, counter_lock, clients_lock, channels,
                   emitted, now, created, sent>>
    /\ ret' = None

\* (mutant: a Failed state survives disconnect)
auth_disconnect_keeps_failed(st) == IF IsFailed(st) THEN st ELSE Disconnected
\* AuthManager::disconnect
auth_disconnect(st) == Disconnected

\* ============================================================ OpenFireClient
\* connect, after a successful AuthResult
connect_success(c, auth_result, timestamp) ==
    [c EXCEPT !.is_connected = TRUE,
              !.current_presence =
                  Some(Presence_new(IF IsSome(auth_result.full_jid)
                                    THEN Unwrap(auth_result.full_jid)
                                    ELSE S_unknown_at_localhost,
                                    "Available", timestamp))]

\* connect, after authenticate(credentials).await returned proc[p].loc
ConnectFinish(p) ==
    /\ proc[p].pc = "auth_returned"
    /\ LET r == proc[p].loc
           unlocked == [Me(p) EXCEPT !.auth_lock = None]
       IN IF IsErr(r)
          THEN /\ client' = SetClient(Tgt(p), unlocked)
               /\ proc' = Return(p, r)
               /\ UNCHANGED <<channels, emitted>>
          ELSE IF ~r[2].success
          THEN /\ client' = SetClient(Tgt(p), unlocked)
               /\ proc' = Return(p, Err("AuthenticationFailed", r[2].message))
               /\ UNCHANGED <<channels, emitted>>
          ELSE /\ client' = SetClient(Tgt(p), connect_success(unlocked, r[2], now))
               /\ emit_event(Tgt(p), Me(p), <<"ConnectionStateChanged", "connected">>)
               /\ proc' = Return(p, Ok(Unit))
    /\ UNCHANGED <<CLIENT_COUNTER, CLIENTS, counter_lock, clients_lock, now, created, sent>>
    /\ ret' = None

\* (mutant: the presence is not cleared)
client_disconnect_keeps_presence(c) ==
    [c EXCEPT !.auth_state = auth_disconnect(@), !.is_connected = FALSE]
\* (mutant: disconnect of a session that is not connected records a failure)
client_disconnect_fails_when_idle(c) ==
    [c EXCEPT !.auth_state = IF c.is_connected THEN auth_disconnect(@)
                             ELSE Failed(<<"Not connected to server">>),
              !.is_connected = FALSE,
              !.current_presence = None]
\* disconnect: what it stores in the client
client_disconnect(c) ==
    [c EXCEPT !.auth_state = auth_disconnect(@),
              !.is_connected = FALSE,
              !.current_presence = None]

Disconnect(p) ==
    /\ proc[p].pc = "disconnect"
    /\ Me(p).auth_lock = None
    /\ client' = SetClient(Tgt(p), client_disconnect(Me(p)))
    /\ emit_event(Tgt(p), Me(p), <<"ConnectionStateChanged", "disconnected">>)
    /\ proc' = Return(p, Ok(Unit))
    /\ UNCHANGED <<CLIENT_COUNTER, CLIENTS, counter_lock, clients_lock, now, created, sent>>
    /\ ret' = None

\* `if !self.is_connected { return Err(ConnectionError) }`
not_connected(c) == ~c.is_connected

\* the jid of the current presence, or the fallback
own_jid(c) ==
    IF IsSome(c.current_presence) THEN Unwrap(c.current_presence).jid
    ELSE S_unknown_at_localhost

\* set_presence up to its sleep: the check, and the Presence it builds
set_presence_check(c) == not_connected(c)
SetPresenceBegin(p) ==
    /\ proc[p].pc = "set_presence"
    /\ LET status == proc[p].arg[1]
           message == proc[p].arg[2]
           base == Presence_new(own_jid(Me(p)), status, now)
           presence == IF IsSome(message) THEN with_message(base, Unwrap(message))
                       ELSE base
       IN proc' = IF set_presence_check(Me(p)) THEN Return(p, NotConnected)
                  ELSE Goto(p, "set_presence_sleep", presence)
    /\ UNCHANGED <<CLIENT_COUNTER, CLIENTS, counter_lock, clients_lock, client,
                   channels, emitted, now, created, sent>>
    /\ ret' = None

SetPresenceEnd(p) ==
    /\ proc[p].pc = "set_presence_sleep"
    /\ client' = SetClient(Tgt(p),
                           [Me(p) EXCEPT !.current_presence = Some(proc[p].loc)])
    /\ emit_event(Tgt(p), Me(p), <<"PresenceUpdated", proc[p].loc>>)
    /\ proc' = Return(p, Ok(Unit))
    /\ UNCHANGED <<CLIENT_COUNTER, CLIENTS, counter_lock, clients_lock, now, created, sent>>
    /\ ret' = None

\* (mutant: join_room without its connection check)
join_room_unchecked(c) == FALSE
\* join_room
join_room_check(c) == not_connected(c)
JoinRoomBegin(p) ==
    /\ proc[p].pc = "join_room"
    /\ proc' = IF join_room_check(Me(p)) THEN Return(p, NotConnected)
               ELSE Goto(p, "join_room_sleep", <<>>)
    /\ UNCHANGED <<CLIENT_COUNTER, CLIENTS, counter_lock, clients_lock, client,
                   channels, emitted, now, created, sent>>
    /\ ret' = None

ChatRoom_joined(room_jid, nickname) ==
    [jid |-> room_jid, name |-> split_next(room_jid, "@"), description |-> None,
     subject |-> None, participants |-> <<nickname>>, joined |-> TRUE]

JoinRoomEnd(p) ==
    /\ proc[p].pc = "join_room_sleep"
    /\ LET room_jid == proc[p].arg[1]
           nickname == proc[p].arg[2]
       IN client' = SetClient(Tgt(p),
              [Me(p) EXCEPT !.chat_rooms =
                   insert(@, room_jid, ChatRoom_joined(room_jid, nickname))])
    /\ proc' = Return(p, Ok(Unit))
    /\ UNCHANGED <<CLIENT_COUNTER, CLIENTS, counter_lock, clients_lock, channels,
                   emitted, now, created, sent>>
    /\ ret' = None

\* leave_room
LeaveRoomBegin(p) ==
    /\ proc[p].pc = "leave_room"
    /\ proc' = IF not_connected(Me(p)) THEN Return(p, NotConnected)
               ELSE Goto(p, "leave_room_sleep", <<>>)
    /\ UNCHANGED <<CLIENT_COUNTER, CLIENTS, counter_lock, clients_lock, client,
                   channels, emitted, now, created, sent>>
    /\ ret' = None

\* (mutant: leaving a room that was not joined is an error)
leave_room_result_requires_joined(c, room_jid) ==
    IF contains_key(c.chat_rooms, room_jid) THEN Ok(Unit)
    ELSE Err("XmppProtocolError", <<"Not joined to room: ">> \o room_jid)
\* leave_room after its sleep: the value of remove is dropped, Ok(()) returned
leave_room_result(c, room_jid) == Ok(Unit)

LeaveRoomEnd(p) ==
    /\ proc[p].pc = "leave_room_sleep"
    /\ client' = SetClient(Tgt(p),
                           [Me(p) EXCEPT !.chat_rooms = remove(@, proc[p].arg[1])])
    /\ proc' = Return(p, leave_room_result(Me(p), proc[p].arg[1]))
    /\ UNCHANGED <<CLIENT_COUNTER, CLIENTS, counter_lock, clients_lock, channels,
                   emitted, now, created, sent>>
    /\ ret' = None

\* add_contact
add_contact_check(c) == not_connected(c)
AddContactBegin(p) ==
    /\ proc[p].pc = "add_contact"
    /\ proc' = IF add_contact_check(Me(p)) THEN Return(p, NotConnected)
               ELSE Goto(p, "add_contact_sleep", <<>>)
    /\ UNCHANGED <<CLIENT_COUNTER, CLIENTS, counter_lock, clients_lock, client,
                   channels, emitted, now, created, sent>>
    /\ ret' = None

Contact_new(jid, name, groups) ==
    [jid |-> jid, name |-> name, subscription |-> <<"none">>, groups |-> groups,
     presence |-> None]

AddContactEnd(p) ==
    /\ proc[p].pc = "add_contact_sleep"
    /\ LET contact == Contact_new(proc[p].arg[1], proc[p].arg[2], proc[p].arg[3])
       IN /\ client' = SetClient(Tgt(p),
                 [Me(p) EXCEPT !.contacts = insert(@, contact.jid, contact)])
          /\ emit_event(Tgt(p), Me(p), <<"ContactUpdated", contact>>)
    /\ proc' = Return(p, Ok(Unit))
    /\ UNCHANGED <<CLIENT_COUNTER, CLIENTS, counter_lock, clients_lock, now, created, sent>>
    /\ ret' = None

\* remove_contact
RemoveContactBegin(p) ==
    /\ proc[p].pc = "remove_contact"
    /\ proc' = IF not_connected(Me(p)) THEN Return(p, NotConnected)
               ELSE Goto(p, "remove_contact_sleep", <<>>)
    /\ UNCHANGED <<CLIENT_COUNTER, CLIENTS, counter_lock, clients_lock, client,
                   channels, emitted, now, created, sent>>
    /\ ret' = None

RemoveContactEnd(p) ==
    /\ proc[p].pc = "remove_contact_sleep"
    /\ client' = SetClient(Tgt(p),
                           [Me(p) EXCEPT !.contacts = remove(@, proc[p].arg[1])])
    /\ proc' = Return(p, Ok(Unit))
    /\ UNCHANGED <<CLIENT_COUNTER, CLIENTS, counter_lock, clients_lock, channels,
                   emitted, now, created, sent>>
    /\ ret' = None

\* ------------------------------------------------------------- send_message
HexDigits == <<"0", "1", "2", "3", "4", "5", "6", "7", "8", "9",
               "a", "b", "c", "d", "e", "f">>
\* format!("{:x}", n)
RECURSIVE hex(_)
hex(n) == IF n < 16 THEN <<HexDigits[n + 1]>>
          ELSE hex(n \div 16) \o <<HexDigits[(n % 16) + 1]>>
\* generate_message_id at time timestamp
generate_message_id(timestamp) == <<"msg_">> \o hex(timestamp)

SendMessageBegin(p) ==
    /\ proc[p].pc = "send_message"
    /\ proc' = IF not_connected(Me(p)) THEN Return(p, NotConnected)
               ELSE Goto(p, "send_sleep", generate_message_id(now))
    /\ UNCHANGED <<CLIENT_COUNTER, CLIENTS, counter_lock, clients_lock, client,
                   channels, emitted, now, created, sent>>
    /\ ret' = None

NotJoined(room_jid) ==
    Err("XmppProtocolError", <<"Not joined to room: ">> \o room_jid)
\* (mutant: the room is looked up before the connection is checked)
send_group_message_check_room_first(c, room_jid) ==
    IF ~contains_key(c.chat_rooms, room_jid) THEN Some(NotJoined(room_jid))
    ELSE IF not_connected(c) THEN Some(NotConnected)
    ELSE None
\* (mutant: the room is not looked up)
send_group_message_check_connection_only(c, room_jid) ==
    IF not_connected(c) THEN Some(NotConnected) ELSE None
\* send_group_message: the error of its two early returns, if one is taken
send_group_message_check(c, room_jid) ==
    IF not_connected(c) THEN Some(NotConnected)
    ELSE IF ~contains_key(c.chat_rooms, room_jid) THEN Some(NotJoined(room_jid))
    ELSE None

SendGroupMessageBegin(p) ==
    /\ proc[p].pc = "send_group_message"
    /\ LET refused == send_group_message_check(Me(p), proc[p].arg[1])
       IN proc' = IF IsSome(refused) THEN Return(p, Unwrap(refused))
                  ELSE Goto(p, "send_sleep", generate_message_id(now))
    /\ UNCHANGED <<CLIENT_COUNTER, CLIENTS, counter_lock, clients_lock, client,
                   channels, emitted, now, created, sent>>
    /\ ret' = None

\* the simulated send is over: Ok(message.id)
SendEnd(p) ==
    /\ proc[p].pc = "send_sleep"
    /\ proc' = Return(p, Ok(proc[p].loc))
    /\ sent' = Append(sent, proc[p].loc)
    /\ UNCHANGED <<CLIENT_COUNTER, CLIENTS, counter_lock, clients_lock, client,
                   channels, emitted, now, created>>
    /\ ret' = None

\* ------------------------------------------------------- event dispatching
\* (mutant: dropping the sender leaves the channel open)
CloseTx_keeps_open(chs, tx) == chs
\* dropping a Sender closes its channel
CloseTx(chs, tx) ==
    IF IsSome(tx) THEN [chs EXCEPT ![Unwrap(tx)].open = FALSE] ELSE chs

\* (mutant: a new channel starts with the events emitted so far)
initial_queue_replays(earlier) == earlier
\* what a new unbounded_channel() holds, whatever was emitted earlier
initial_queue(earlier) == <<>>

\* set_event_callback: a new channel replaces event_tx, a task is spawned on it
SetEventCallback(p) ==
    /\ proc[p].pc = "set_event_callback"
    /\ LET s == Tgt(p)
           k == Len(channels[s]) + 1
       IN /\ channels' = [channels EXCEPT ![s] =
                  Append(CloseTx(@, Me(p).event_tx),
                         [NewChannel(Len(emitted[s])) EXCEPT
                             !.queue = initial_queue(emitted[s])])]
          /\ client' = SetClient(s, [Me(p) EXCEPT !.event_tx = Some(k)])
    /\ proc' = Return(p, Ok(Unit))
    /\ UNCHANGED <<CLIENT_COUNTER, CLIENTS, counter_lock, clients_lock, emitted,
                   now, created, sent>>
    /\ ret' = None

\* (mutant: the newest message is received first)
rx_recv_newest(queue) == <<queue[Len(queue)], SubSeq(queue, 1, Len(queue) - 1)>>
\* rx.recv() on a non-empty channel: the oldest message, and what stays queued
rx_recv(queue) == <<Head(queue), Tail(queue)>>

\* the spawned task: rx.recv().await returned Some(event), callback(event) starts
DeliverBegin(s, k) ==
    /\ k \in 1..Len(channels[s])
    /\ channels[s][k].cur = None
    /\ channels[s][k].queue # <<>>
    /\ LET r == rx_recv(channels[s][k].queue)
       IN channels' = [channels EXCEPT ![s][k].cur = Some(r[1]),
                                       ![s][k].queue = r[2]]
    /\ UNCHANGED <<CLIENT_COUNTER, CLIENTS, counter_lock, clients_lock, client,
                   emitted, now, proc, created, sent>>
    /\ ret' = None

\* callback(event) returns
DeliverEnd(s, k) ==
    /\ k \in 1..Len(channels[s])
    /\ IsSome(channels[s][k].cur)
    /\ channels' = [channels EXCEPT ![s][k].got = Append(@, Unwrap(channels[s][k].cur)),
                                    ![s][k].cur = None]
    /\ UNCHANGED <<CLIENT_COUNTER, CLIENTS, counter_lock, clients_lock, client,
                   emitted, now, proc, created, sent>>
    /\ ret' = None

\* --------------------------------------------------------------------- time
Tick ==
    /\ now < MaxClock
    /\ now' = now + 1
    /\ UNCHANGED <<CLIENT_COUNTER, CLIENTS, counter_lock, clients_lock, client,
                   channels, emitted, proc, created, sent>>
    /\ ret' = None

\* ================================================= the library's direct caller
UsernameInputs == {<<>>, S_testuser, S_invalid, <<"a", " ", "b">>, <<"a", "@", "b">>}
PasswordInputs == {<<>>, S_testpass, S_wrong}
CredentialInputs ==
    {Credentials_new(u, pw) : u \in UsernameInputs, pw \in PasswordInputs}
    \cup {Credentials_with_domain(S_testuser, S_testpass, S_example)}
StatusInputs == {"Away"}
MessageInputs == {None, Some(S_brb)}
RoomInputs == {S_room, S_lobby}
NickInputs == {S_nick, S_nick2}
ContactInputs == {S_bob}
NameInputs == {Some(<<"Bob">>)}

Call(op, arg) == [op |-> op, arg |-> arg]
\* the calls that reach emit_event
EmittingOps == {"connect", "disconnect", "set_presence", "add_contact"}

LifecycleCalls ==
    {Call("connect", creds) : creds \in CredentialInputs}
    \cup {Call("disconnect", <<>>)}
    \cup {Call("set_presence", <<st, m>>) : st \in StatusInputs, m \in MessageInputs}
    \cup {Call("join_room", <<r, n>>) : r \in RoomInputs, n \in NickInputs}
    \cup {Call("leave_room", <<r>>) : r \in RoomInputs}
    \cup {Call("add_contact", <<j, n, <<>> >>) : j \in ContactInputs, n \in NameInputs}
    \cup {Call("remove_contact", <<j>>) : j \in ContactInputs}
SendCalls ==
    {Call("send_message", <<S_bob, <<"hi">> >>)}
    \cup {Call("send_group_message", <<r, <<"hi">> >>) : r \in RoomInputs}
CallbackCalls == {Call("set_event_callback", <<>>)}

\* the bounds on a call's start
SendOps == {"send_message", "send_group_message"}
CallAllowed(s, call) ==
    /\ call.op \in EmittingOps => Len(emitted[s]) < MaxEvents
    /\ call.op \in SendOps => Len(sent) < MaxSends
    /\ call.op = "set_event_callback" => Len(channels[s]) < MaxCallbacks

Enter(p, s, call) ==
    [proc EXCEPT ![p] = [pc |-> call.op, op |-> call.op, h |-> s, arg |-> call.arg,
                         loc |-> <<>>, res |-> <<>>, pre |-> Snapshot(s)]]

\* the owner of client 0 calls one of its methods (&mut self: one at a time)
OwnerCall(calls) ==
    /\ proc[Owner].pc = "idle"
    /\ IsSome(client[0])
    /\ \E call \in calls :
          /\ CallAllowed(0, call)
          /\ proc' = Enter(Owner, 0, call)
    /\ UNCHANGED <<CLIENT_COUNTER, CLIENTS, counter_lock, clients_lock, client,
                   channels, emitted, now, created, sent>>
    /\ ret' = None

\* the method has returned proc[Owner].res to the owner
OwnerReturn ==
    /\ proc[Owner].pc = "op_done"
    /\ proc' = [proc EXCEPT ![Owner] = Idle]
    /\ UNCHANGED <<CLIENT_COUNTER, CLIENTS, counter_lock, clients_lock, client,
                   channels, emitted, now, created, sent>>
    /\ ret' = None

\* one step of connect
ConnectStep(p) ==
    \/ Authenticate(p)
    \/ PerformAuthentication(p)
    \/ AuthExchange(p)
    \/ ConnectFinish(p)

\* one step of a send
SendStep(p) ==
    \/ SendMessageBegin(p)
    \/ SendGroupMessageBegin(p)
    \/ SendEnd(p)

\* one step of an operation on the session's connection, presence, rooms, roster
LifecycleStep(p) ==
    \/ ConnectStep(p)
    \/ Disconnect(p)
    \/ SetPresenceBegin(p)
    \/ SetPresenceEnd(p)
    \/ JoinRoomBegin(p)
    \/ JoinRoomEnd(p)
    \/ LeaveRoomBegin(p)
    \/ LeaveRoomEnd(p)
    \/ AddContactBegin(p)
    \/ AddContactEnd(p)
    \/ RemoveContactBegin(p)
    \/ RemoveContactEnd(p)

InitCommon ==
    /\ CLIENT_COUNTER = 0
    /\ CLIENTS = {}
    /\ counter_lock = None
    /\ clients_lock = None
    /\ emitted = [s \in SessionIds |-> <<>>]
    /\ now = 0
    /\ proc = [p \in Procs |-> Idle]
    /\ created = <<>>
    /\ sent = <<>>
    /\ ret = None

\* The caller owns OpenFireClient::new(Config::default()) and has, or has not,
\* installed an event callback on it; the registry is not used. The delivery
\* task is not scheduled in this specification: sent events stay queued.
InitLib ==
    /\ InitCommon
    /\ \E cb \in BOOLEAN :
          /\ client = [s \in SessionIds |->
                         IF s # 0 THEN None
                         ELSE Some([OpenFireClient_new(DefaultConfig) EXCEPT
                                       !.event_tx = IF cb THEN Some(1) ELSE None])]
          /\ channels = [s \in SessionIds |->
                           IF s = 0 /\ cb THEN <<NewChannel(0)>> ELSE <<>>]

NextLib ==
    \/ OwnerCall(LifecycleCalls)
    \/ LifecycleStep(Owner)
    \/ OwnerReturn

SpecLib == InitLib /\ [][NextLib]_vars

\* The same caller, also sending messages while the clock advances.
MessagingCalls ==
    {Call("connect", Credentials_new(S_testuser, pw)) : pw \in {S_testpass, S_wrong}}
    \cup {Call("disconnect", <<>>)}
    \cup {Call("set_presence", <<st, None>>) : st \in StatusInputs}
    \cup {Call("join_room", <<r, S_nick>>) : r \in RoomInputs}
    \cup {Call("leave_room", <<r>>) : r \in RoomInputs}
    \cup {Call("add_contact", <<j, n, <<>> >>) : j \in ContactInputs, n \in NameInputs}
    \cup {Call("remove_contact", <<j>>) : j \in ContactInputs}
    \cup SendCalls

NextMessaging ==
    \/ OwnerCall(MessagingCalls)
    \/ LifecycleStep(Owner)
    \/ SendStep(Owner)
    \/ OwnerReturn
    \/ Tick

SpecMessaging == InitLib /\ [][NextMessaging]_vars

\* The same caller, installing event callbacks while the spawned delivery
\* tasks run; the runtime schedules every spawned task that can make progress.
EventCalls ==
    {Call("connect", Credentials_new(S_testuser, S_testpass)),
     Call("disconnect", <<>>)}
    \cup {Call("set_presence", <<st, None>>) : st \in StatusInputs}
    \cup {Call("add_contact", <<j, n, <<>> >>) : j \in ContactInputs, n \in NameInputs}
    \cup CallbackCalls

EventStep(p) ==
    \/ ConnectStep(p)
    \/ Disconnect(p)
    \/ SetPresenceBegin(p)
    \/ SetPresenceEnd(p)
    \/ AddContactBegin(p)
    \/ AddContactEnd(p)
    \/ SetEventCallback(p)

\* one step of the delivery task of channel k of client 0
Deliver(k) == DeliverBegin(0, k) \/ DeliverEnd(0, k)

NextEvents ==
    \/ OwnerCall(EventCalls)
    \/ EventStep(Owner)
    \/ OwnerReturn
    \/ \E k \in 1..MaxCallbacks : Deliver(k)

SpecEvents ==
    /\ InitLib
    /\ [][NextEvents]_vars
    /\ \A k \in 1..MaxCallbacks : WF_vars(Deliver(k))

\* the owner drops client 0 (as destroyClient drops the client it removed,
\* after its disconnect): the sender in event_tx is dropped with it
DropClient ==
    /\ proc[Owner].pc = "idle"
    /\ IsSome(client[0])
    /\ channels' = [channels EXCEPT ![0] = CloseTx(@, Cl(0).event_tx)]
    /\ client' = [client EXCEPT ![0] = None]
    /\ UNCHANGED <<CLIENT_COUNTER, CLIENTS, counter_lock, clients_lock, emitted,
                   now, proc, created, sent>>
    /\ ret' = None

NextTeardown ==
    \/ OwnerCall(EventCalls)
    \/ EventStep(Owner)
    \/ OwnerReturn
    \/ DropClient
    \/ \E k \in 1..MaxCallbacks : Deliver(k)

SpecTeardown ==
    /\ InitLib
    /\ [][NextTeardown]_vars
    /\ \A k \in 1..MaxCallbacks : WF_vars(Deliver(k))

\* The same caller, connecting and disconnecting only; the runtime keeps
\* polling the connect it is blocked on, so every step of it is taken.
AuthCalls ==
    {Call("connect", creds) : creds \in CredentialInputs}
    \cup {Call("connect", Credentials_with_domain(u, S_testpass, S_example)) :
            u \in {<<>>, <<"a", "@", "b">>}}
    \cup {Call("disconnect", <<>>)}

NextAuth ==
    \/ OwnerCall(AuthCalls)
    \/ ConnectStep(Owner)
    \/ Disconnect(Owner)
    \/ OwnerReturn

SpecAuth ==
    /\ InitLib
    /\ [][NextAuth]_vars
    /\ WF_vars(ConnectStep(Owner))

\* ============================================================= JNI boundary
Handles == 1..MaxHandles

\* values crossing the boundary
jstring(s) == <<"jstring", s>>
jnull == <<"null">>
jboolean(b) == <<"jboolean", b>>
jlong(n) == <<"jlong", n>>

\* Config::from_json on the text of a config; a text that is no JSON config
json(cfg) == <<"json", cfg>>
Garbage == <<"garbage">>
\* the numbers the fields of Config can hold: port u16, the timeouts u64,
\* priority i8
fits_field_types(cfg) ==
    /\ cfg.port \in 0..65535
    /\ cfg.connection_timeout >= 0
    /\ cfg.auth_timeout >= 0
    /\ cfg.priority \in -128..127
from_json(text) ==
    IF text[1] = "json" /\ fits_field_types(text[2]) THEN Ok(text[2])
    ELSE Err("ConfigError", <<"Failed to parse JSON config: ">>)
ConfigInputs ==
    {json(DefaultConfig),
     json([DefaultConfig EXCEPT !.server = <<>>]),
     json([DefaultConfig EXCEPT !.domain = <<>>]),
     json([DefaultConfig EXCEPT !.port = 0]),
     json([DefaultConfig EXCEPT !.connection_timeout = 0]),
     json([DefaultConfig EXCEPT !.auth_timeout = 0]),
     json([DefaultConfig EXCEPT !.priority = 128]),
     json([DefaultConfig EXCEPT !.priority = -129]),
     Garbage}

\* AuthManager::new inside OpenFireClient::new: config.validate()?
OpenFireClient_try_new(cfg) ==
    IF IsErr(ConfigValidate(cfg)) THEN ConfigValidate(cfg)
    ELSE Ok(OpenFireClient_new(cfg))

\* (mutant: the counter is read, not incremented)
next_client_id_not_incremented(counter) == counter
\* `*counter += 1; let client_id = *counter;`
next_client_id(counter) == counter + 1

\* how many createClient calls are between their start and their return
CreatesInFlight ==
    Cardinality({t \in Threads : proc[t].pc \in {"create_counter", "create_clients"}})

\* an entry point returns value to its Java caller
Returned(t, op, h, value) == Some([t |-> t, op |-> op, h |-> h, value |-> value])
\* createClient returns -1 for the config text it was given
CreateFailed(t, text) ==
    Some([t |-> t, op |-> "createClient", h |-> 0, value |-> jlong(-1),
          config_json |-> text])

\* createClient up to the counter lock: parse the config, construct the client
CreateBegin(t) ==
    /\ proc[t].pc = "idle"
    /\ CLIENT_COUNTER + CreatesInFlight < MaxHandles
    /\ \E text \in ConfigInputs :
          LET parsed == from_json(text)
              made == IF IsErr(parsed) THEN parsed ELSE OpenFireClient_try_new(parsed[2])
          IN IF IsErr(made)
             THEN /\ proc' = proc
                  /\ ret' = CreateFailed(t, text)
             ELSE /\ proc' = [proc EXCEPT ![t] =
                         [Idle EXCEPT !.pc = "create_counter", !.op = "createClient",
                                      !.loc = <<made[2]>>]]
                  /\ ret' = None
    /\ UNCHANGED <<CLIENT_COUNTER, CLIENTS, counter_lock, clients_lock, client,
                   channels, emitted, now, created, sent>>

\* CLIENT_COUNTER.lock(), increment, read
CreateCounter(t) ==
    /\ proc[t].pc = "create_counter"
    /\ counter_lock = None
    /\ counter_lock' = Some(t)
    /\ CLIENT_COUNTER' = next_client_id(CLIENT_COUNTER)
    /\ proc' = Goto(t, "create_clients", <<proc[t].loc[1], next_client_id(CLIENT_COUNTER)>>)
    /\ UNCHANGED <<CLIENTS, clients_lock, client, channels, emitted, now, created, sent>>
    /\ ret' = None

\* (mutant: the registry is entered without waiting for the lock)
can_lock_clients_unguarded(t) == TRUE
\* the registry lock is free for t to take
can_lock_clients(t) == clients_lock = None

\* CLIENTS.lock(), insert, and the function's end: both guards dropped
\* (mutant: the counter's guard outlives createClient)
drop_counter_guard_leaked(holder) == holder
\* createClient returns: `counter`, the guard of CLIENT_COUNTER, is dropped
drop_counter_guard(holder) == None

CreateInsert(t) ==
    /\ proc[t].pc = "create_clients"
    /\ can_lock_clients(t)
    /\ LET client_id == proc[t].loc[2]
       IN /\ CLIENTS' = CLIENTS \cup {client_id}
          /\ client' = [client EXCEPT ![client_id] = Some(proc[t].loc[1])]
          /\ created' = Append(created, client_id)
          /\ ret' = Returned(t, "createClient", client_id, jlong(client_id))
    /\ proc' = [proc EXCEPT ![t] = Idle]
    /\ counter_lock' = drop_counter_guard(counter_lock)
    /\ UNCHANGED <<CLIENT_COUNTER, clients_lock, channels, emitted, now, sent>>

\* setPresence's match on its jint
status_enum(status) ==
    CASE status = 0 -> Some("Available")
      [] status = 1 -> Some("Away")
      [] status = 2 -> Some("ExtendedAway")
      [] status = 3 -> Some("DoNotDisturb")
      [] status = 4 -> Some("Unavailable")
      [] status = 5 -> Some("Invisible")
      [] OTHER -> None

\* connect's credentials from its username, password and domain strings
jni_credentials(username, password, domain_str) ==
    IF is_empty(domain_str) THEN Credentials_new(username, password)
    ELSE Credentials_with_domain(username, password, domain_str)

\* the entry points that run an async method of the client under block_on
\* (arg as the method takes it; jarg as the entry point received it)
JCall(op, method, arg, jarg) == [op |-> op, method |-> method, arg |-> arg, jarg |-> jarg]
JniConnectInputs ==
    {<<S_testuser, S_testpass, <<>> >>, <<S_invalid, S_testpass, <<>> >>,
     <<S_testuser, S_testpass, S_example>>, <<<<>>, S_testpass, <<>> >>}
JniStatusInputs == {1, 6}
JniAsyncCalls ==
    {JCall("connect", "connect", jni_credentials(a[1], a[2], a[3]), a) :
        a \in JniConnectInputs}
    \cup {JCall("disconnect", "disconnect", <<>>, <<>>)}
    \cup {JCall("sendMessage", "send_message", <<S_bob, <<"hi">> >>, <<>>)}
    \cup {JCall("setPresence", "set_presence", <<Unwrap(status_enum(st)), None>>, <<st>>) :
            st \in {x \in JniStatusInputs : IsSome(status_enum(x))}}
    \cup {JCall("joinRoom", "join_room", <<S_room, S_nick>>, <<>>)}
JniEmittingOps == {"connect", "disconnect", "setPresence"}

RECURSIVE SumLen(_, _)
SumLen(f, S) ==
    IF S = {} THEN 0
    ELSE LET x == CHOOSE y \in S : TRUE IN Len(f[x]) + SumLen(f, S \ {x})
\* the bound on the calls of the boundary that emit
JniCallAllowed(op) ==
    /\ op \in JniEmittingOps => SumLen(emitted, Handles) < MaxJniEvents
    /\ op = "sendMessage" => Len(sent) < MaxSends

\* (mutant: a missing client is reported as -1 by every entry point)
NotFound_minus_one(op) == jlong(-1)
\* what an entry point returns when `clients.get(&client_id)` is None
NotFound(op) ==
    IF op \in {"connect", "sendMessage", "getPresence"} THEN jnull ELSE jboolean(FALSE)

\* setPresence with a jint that is no status: FALSE, before the registry is locked
SetPresenceBadStatus(t) ==
    /\ proc[t].pc = "idle"
    /\ \E h \in Handles, st \in JniStatusInputs :
          /\ status_enum(st) = None
          /\ ret' = Returned(t, "setPresence", h, jboolean(FALSE))
    /\ UNCHANGED <<CLIENT_COUNTER, CLIENTS, counter_lock, clients_lock, client,
                   channels, emitted, now, proc, created, sent>>

\* an entry point locks CLIENTS and looks its handle up; when found, it starts
\* the client's method under RUNTIME.block_on, the guard still alive
JniEnter(t) ==
    /\ proc[t].pc = "idle"
    /\ can_lock_clients(t)
    /\ \E h \in Handles, call \in JniAsyncCalls :
          /\ JniCallAllowed(call.op)
          /\ IF h \in CLIENTS
             THEN /\ clients_lock' = Some(t)
                  /\ proc' = [proc EXCEPT ![t] =
                         [pc |-> call.method, op |-> call.op, h |-> h, arg |-> call.arg,
                          loc |-> <<>>, res |-> <<>>, pre |-> Snapshot(h)]]
                  /\ ret' = None
             ELSE /\ clients_lock' = clients_lock
                  /\ proc' = proc
                  /\ ret' = Returned(t, call.op, h, NotFound(call.op))
    /\ UNCHANGED <<CLIENT_COUNTER, CLIENTS, counter_lock, client, channels, emitted,
                   now, created, sent>>

\* isConnected and getPresence: lock, look up, read, unlock
JniRead(t) ==
    /\ proc[t].pc = "idle"
    /\ can_lock_clients(t)
    /\ \E h \in Handles, op \in {"isConnected", "getPresence"} :
          LET value ==
                IF h \notin CLIENTS THEN NotFound(op)
                ELSE IF op = "isConnected" THEN jboolean(Cl(h).is_connected)
                ELSE IF IsSome(Cl(h).current_presence)
                     THEN jstring(Unwrap(Cl(h).current_presence))
                     ELSE jnull
          IN ret' = Returned(t, op, h, value)
    /\ UNCHANGED <<CLIENT_COUNTER, CLIENTS, counter_lock, clients_lock, client,
                   channels, emitted, now, proc, created, sent>>

\* (mutant: the client is looked up, not removed)
registry_remove_keeps(keys, h) == keys
\* the keys of the map after clients.remove(&client_id)
registry_remove(keys, h) == keys \ {h}

\* destroyClient: lock, remove; disconnect the removed client if it is connected
DestroyEnter(t) ==
    /\ proc[t].pc = "idle"
    /\ can_lock_clients(t)
    /\ \E h \in Handles :
          IF h \in CLIENTS
          THEN /\ CLIENTS' = registry_remove(CLIENTS, h)
               /\ clients_lock' = Some(t)
               /\ proc' = [proc EXCEPT ![t] =
                      [pc |-> IF Cl(h).is_connected THEN "disconnect" ELSE "op_done",
                       op |-> "destroyClient", h |-> h, arg |-> <<>>, loc |-> <<>>,
                       res |-> Ok(Unit), pre |-> Snapshot(h)]]
               /\ ret' = None
          ELSE /\ UNCHANGED <<CLIENTS, clients_lock, proc>>
               /\ ret' = Returned(t, "destroyClient", h, jboolean(FALSE))
    /\ UNCHANGED <<CLIENT_COUNTER, counter_lock, client, channels, emitted, now, created, sent>>

\* (mutant: connect returns null when the client's connect failed)
jni_result_null_on_error(op, jarg, r) ==
    CASE op = "connect" ->
            IF IsOk(r)
            THEN jstring(AuthResult_success(jarg[1] \o <<"@">> \o jarg[3],
                                            Some(<<"session_id">>), 100))
            ELSE jnull
      [] op = "sendMessage" -> IF IsOk(r) THEN jstring(r[2]) ELSE jnull
      [] op = "destroyClient" -> jboolean(TRUE)
      [] OTHER -> jboolean(IsOk(r))
\* what an entry point makes of the Result r of the client's method
jni_result(op, jarg, r) ==
    CASE op = "connect" ->
            jstring(IF IsOk(r)
                    THEN AuthResult_success(jarg[1] \o <<"@">> \o jarg[3],
                                            Some(<<"session_id">>), 100)
                    ELSE AuthResult_failure(to_string(r), 100))
      [] op = "sendMessage" -> IF IsOk(r) THEN jstring(r[2]) ELSE jnull
      [] op = "destroyClient" -> jboolean(TRUE)
      [] OTHER -> jboolean(IsOk(r))

\* block_on returned: the entry point builds its result, its guard is dropped
\* (destroyClient also drops the removed client, and with it the event sender)
JniReturn(t) ==
    /\ proc[t].pc = "op_done"
    /\ clients_lock' = None
    /\ LET h == Tgt(t)
           jarg == IF proc[t].op = "connect"
                   THEN <<proc[t].arg.username, proc[t].arg.password,
                          IF IsSome(proc[t].arg.domain) THEN Unwrap(proc[t].arg.domain)
                          ELSE <<>> >>
                   ELSE <<>>
       IN /\ ret' = Returned(t, proc[t].op, h, jni_result(proc[t].op, jarg, proc[t].res))
          /\ IF proc[t].op = "destroyClient"
             THEN /\ client' = [client EXCEPT ![h] = None]
                  /\ channels' = [channels EXCEPT ![h] = CloseTx(@, Cl(h).event_tx)]
             ELSE UNCHANGED <<client, channels>>
    /\ proc' = [proc EXCEPT ![t] = Idle]
    /\ UNCHANGED <<CLIENT_COUNTER, CLIENTS, counter_lock, emitted, now, created, sent>>

\* one step of a client method a JNI thread runs
JniSessionStep(t) ==
    \/ ConnectStep(t)
    \/ Disconnect(t)
    \/ SetPresenceBegin(t)
    \/ SetPresenceEnd(t)
    \/ JoinRoomBegin(t)
    \/ JoinRoomEnd(t)
    \/ SendMessageBegin(t)
    \/ SendEnd(t)

\* the library just loaded: empty registry, counter 0, no client
Init ==
    /\ InitCommon
    /\ client = [s \in SessionIds |-> None]
    /\ channels = [s \in SessionIds |-> <<>>]

Next ==
    \E t \in Threads :
        \/ CreateBegin(t)
        \/ CreateCounter(t)
        \/ CreateInsert(t)
        \/ DestroyEnter(t)
        \/ JniEnter(t)
        \/ JniRead(t)
        \/ SetPresenceBadStatus(t)
        \/ JniSessionStep(t)
        \/ JniReturn(t)

Spec == Init /\ [][Next]_vars

\* a step of a call that has started: the thread is scheduled, and a mutex it
\* waits for is handed to it when it is free often enough
Progress(t) ==
    \/ CreateCounter(t)
    \/ CreateInsert(t)
    \/ JniSessionStep(t)
    \/ JniReturn(t)

SpecFair ==
    /\ Init
    /\ [][Next]_vars
    /\ \A t \in Threads : SF_vars(Progress(t))

\* =================================================================== claims
\* the positions inside a method of the client
OpPcs ==
    {"connect", "perform_authentication", "auth_sleep", "auth_returned", "disconnect",
     "set_presence", "set_presence_sleep", "join_room", "join_room_sleep",
     "leave_room", "leave_room_sleep", "add_contact", "add_contact_sleep",
     "remove_contact", "remove_contact_sleep", "send_message", "send_group_message",
     "send_sleep", "set_event_callback"}
\* the positions at which a method is suspended in a simulated delay
SuspendedPcs ==
    {"auth_sleep", "set_presence_sleep", "join_room_sleep", "leave_room_sleep",
     "add_contact_sleep", "remove_contact_sleep", "send_sleep"}
\* the positions at which a method has been called and has not run yet
StartPcs ==
    {"connect", "disconnect", "set_presence", "join_room", "leave_room", "add_contact",
     "remove_contact", "send_message", "send_group_message", "set_event_callback"}
\* process p is inside a method of client s
InOp(p, s) == proc[p].h = s /\ proc[p].pc \in OpPcs
\* client s exists and no method of it is in progress
Quiescent(s) == IsSome(client[s]) /\ \A p \in Procs : ~InOp(p, s)
\* p's call of method op has returned to its caller
ReturnedFrom(p, op) == proc[p].pc = "op_done" /\ proc[p].op = op

\* C1 (as claimed): whenever no operation on a session is in progress, its
\* connected flag is true iff its AuthState is Authenticated.
C1_ConnectedIffAuthenticated ==
    \A s \in SessionIds :
        Quiescent(s) => (Cl(s).is_connected <=> Cl(s).auth_state = Authenticated)

\* C2: whenever no operation on a session is in progress, its presence is
\* present iff its connected flag is true.
C2_PresenceIffConnected ==
    \A s \in SessionIds :
        Quiescent(s) => (IsSome(Cl(s).current_presence) <=> Cl(s).is_connected)
\* a set_presence has replaced the presence of a connected session
C2_Witness ==
    /\ ReturnedFrom(Owner, "set_presence")
    /\ IsOk(proc[Owner].res)
    /\ Cl(0).is_connected
    /\ Unwrap(Cl(0).current_presence).status = "Away"

\* C3 (as claimed): the roster and the rooms are non-empty only while the
\* session is connected.
C3_NonEmptyOnlyWhileConnected ==
    \A s \in SessionIds :
        IsSome(client[s]) =>
            (Cl(s).chat_rooms # EmptyMap \/ Cl(s).contacts # EmptyMap => Cl(s).is_connected)
\* C3 (amended): every step that changes the roster or the rooms of a session
\* is taken while the session is connected and leaves it connected; so entries
\* are added only while connected, and disconnect keeps them.
C3_ChangedOnlyWhileConnected ==
    [][\A s \in SessionIds :
          (IsSome(client[s]) /\ IsSome(client'[s])
           /\ (Cl(s).chat_rooms # client'[s][1].chat_rooms
               \/ Cl(s).contacts # client'[s][1].contacts))
          => (Cl(s).is_connected /\ client'[s][1].is_connected)]_vars
\* a disconnected session still holds a room and a contact
C3_Witness ==
    /\ ReturnedFrom(Owner, "disconnect")
    /\ ~Cl(0).is_connected
    /\ Cl(0).chat_rooms # EmptyMap
    /\ Cl(0).contacts # EmptyMap

\* the state of the client that p's call found, and how many events it had emitted
PreClient(p) == proc[p].pre[1]
PreEmitted(p) == proc[p].pre[2]
\* authenticate has returned to connect, which has not resumed yet
AuthenticateReturned(p) == proc[p].pc = "auth_returned"

\* C4: the handles createClient returns start at 1 and each is greater than
\* every handle returned before it, so none is returned twice, also after its
\* session was destroyed.
C4_HandlesUniqueIncreasing ==
    /\ \A i \in 1..Len(created) : created[i] >= 1
    /\ Len(created) > 0 => created[1] = 1
    /\ \A i, j \in 1..Len(created) : i < j => created[i] < created[j]
    /\ CLIENTS \subseteq {created[i] : i \in 1..Len(created)}
\* a second handle was returned after the first session was destroyed
C4_Witness ==
    /\ Len(created) = 2
    /\ created[1] \notin CLIENTS
    /\ created[2] \in CLIENTS

\* C5 (as claimed): no entry point holds the registry lock while the client
\* method it runs is suspended in a simulated delay.
C5_NoLockWhileSuspended ==
    \A t \in Threads : proc[t].pc \in SuspendedPcs => clients_lock # Some(t)

\* C6: at most one method of a given client is in progress at a time; a method
\* starts, and isConnected / getPresence read, only in a state that a completed
\* method left (no authentication under way, none in progress).
C6_SameHandleSerialized ==
    /\ \A s \in SessionIds : Cardinality({p \in Procs : InOp(p, s)}) <= 1
    /\ \A p \in Procs :
          proc[p].pc \in StartPcs =>
              /\ Me(p).auth_state \notin {Connecting, Authenticating}
              /\ Me(p).auth_lock = None
    /\ (IsSome(ret) /\ Unwrap(ret).op \in {"isConnected", "getPresence"})
          => \A p \in Procs : ~InOp(p, Unwrap(ret).h)
\* a second connect on a handle is suspended in its exchange, the lock held
C6_Witness ==
    \E t \in Threads :
        /\ proc[t].pc = "auth_sleep"
        /\ clients_lock = Some(t)
        /\ Len(emitted[Tgt(t)]) > 0

\* C7 (as claimed): when authenticate returns, the AuthState is Authenticated
\* or Failed.
C7_AuthenticateEndsAuthenticatedOrFailed ==
    \A p \in Procs :
        AuthenticateReturned(p) =>
            (Me(p).auth_state = Authenticated \/ IsFailed(Me(p).auth_state))
\* C7 (amended): when authenticate returns, the AuthState is neither Connecting
\* nor Authenticating; it is Authenticated or Failed if the credentials passed
\* validation, and what it was before the call if they did not.
C7_AuthenticateNeverLeavesTransient ==
    \A p \in Procs :
        AuthenticateReturned(p) =>
            /\ Me(p).auth_state \notin {Connecting, Authenticating}
            /\ IsOk(validate(proc[p].arg)) =>
                  (Me(p).auth_state = Authenticated \/ IsFailed(Me(p).auth_state))
            /\ IsErr(validate(proc[p].arg)) =>
                  Me(p).auth_state = PreClient(p).auth_state
\* authenticate has returned from a rejected exchange on a session that was
\* Authenticated
C7_Witness ==
    /\ AuthenticateReturned(Owner)
    /\ IsFailed(Cl(0).auth_state)
    /\ PreClient(Owner).auth_state = Authenticated

\* C8: connect with credentials that fail validation returns an
\* InvalidCredentials error, leaves the client as it was and emits nothing.
C8_InvalidCredentialsChangeNothing ==
    \A p \in Procs :
        (proc[p].op = "connect" /\ IsErr(validate(proc[p].arg))) =>
            /\ proc[p].pc \in {"connect", "auth_returned", "op_done"}
            /\ AuthenticateReturned(p) =>
                  /\ proc[p].loc[2] = "InvalidCredentials"
                  /\ [Me(p) EXCEPT !.auth_lock = None] = PreClient(p)
                  /\ Len(emitted[Tgt(p)]) = PreEmitted(p)
            /\ ReturnedFrom(p, "connect") =>
                  /\ IsErr(proc[p].res)
                  /\ proc[p].res[2] = "InvalidCredentials"
                  /\ Snapshot(Tgt(p)) = proc[p].pre
                  /\ IsSome(Me(p).event_tx) =>
                        LET ch == channels[Tgt(p)][Unwrap(Me(p).event_tx)]
                        IN Len(ch.queue) = PreEmitted(p) - ch.since
\* connect with a malformed username has returned on a connected session that
\* holds a room
C8_Witness ==
    /\ ReturnedFrom(Owner, "connect")
    /\ IsErr(validate(proc[Owner].arg))
    /\ contains(proc[Owner].arg.username, "@")
    /\ Cl(0).is_connected
    /\ Cl(0).chat_rooms # EmptyMap

\* C9 (as claimed): when connect fails, the session is not connected after the
\* call, and the failure is returned as an error.
C9_FailedConnectLeavesDisconnected ==
    \A p \in Procs :
        (ReturnedFrom(p, "connect") /\ IsErr(proc[p].res)) => ~Me(p).is_connected

\* C10: after connect succeeds the session is connected and Authenticated, its
\* presence is Available at username@domain (the credentials' domain if given,
\* otherwise the configured one), and the call emitted exactly one event,
\* ConnectionStateChanged("connected"), which is the one its channel got.
C10_ConnectSuccess ==
    \A p \in Procs :
        (ReturnedFrom(p, "connect") /\ IsOk(proc[p].res)) =>
            LET c == Me(p)
                creds == proc[p].arg
                domain == IF IsSome(creds.domain) THEN Unwrap(creds.domain)
                          ELSE c.config.domain
                evs == emitted[Tgt(p)]
            IN /\ c.is_connected
               /\ c.auth_state = Authenticated
               /\ IsSome(c.current_presence)
               /\ Unwrap(c.current_presence).status = "Available"
               /\ Unwrap(c.current_presence).jid = creds.username \o <<"@">> \o domain
               /\ Len(evs) = PreEmitted(p) + 1
               /\ evs[Len(evs)] = <<"ConnectionStateChanged", "connected">>
               /\ IsSome(c.event_tx) =>
                     LET ch == channels[Tgt(p)][Unwrap(c.event_tx)]
                     IN ch.queue = SubSeq(evs, ch.since + 1, Len(evs))
\* a connect with a domain override succeeded on a session with a callback
\* that had emitted before
C10_Witness ==
    /\ ReturnedFrom(Owner, "connect")
    /\ IsOk(proc[Owner].res)
    /\ IsSome(proc[Owner].arg.domain)
    /\ IsSome(Cl(0).event_tx)
    /\ PreEmitted(Owner) > 0

\* the event disconnect emits
DisconnectedEvent == <<"ConnectionStateChanged", "disconnected">>
\* the queue of the channel the client sends on has grown by exactly evs
Enqueued(p, evs) ==
    IsSome(Me(p).event_tx) =>
        LET ch == channels[Tgt(p)][Unwrap(Me(p).event_tx)]
            n == Len(ch.queue) + Len(ch.got) + Len(ch.cur)
        IN /\ n = Len(emitted[Tgt(p)]) - ch.since
           /\ Len(evs) <= Len(ch.queue)
           /\ SubSeq(ch.queue, Len(ch.queue) - Len(evs) + 1, Len(ch.queue)) = evs

\* C11: disconnect returns Ok from every state of the session and leaves the
\* AuthState Disconnected, the session not connected and without presence;
\* it has emitted exactly one event, ConnectionStateChanged("disconnected").
C11_DisconnectAlwaysLandsDisconnected ==
    \A p \in Procs :
        ReturnedFrom(p, "disconnect") =>
            /\ proc[p].res = Ok(Unit)
            /\ Me(p).auth_state = Disconnected
            /\ ~Me(p).is_connected
            /\ Me(p).current_presence = None
            /\ emitted[Tgt(p)] =
                  SubSeq(emitted[Tgt(p)], 1, PreEmitted(p)) \o <<DisconnectedEvent>>
            /\ Enqueued(p, <<DisconnectedEvent>>)
\* disconnect has returned on a session whose AuthState was Failed and which
\* has a callback installed
C11_Witness ==
    /\ ReturnedFrom(Owner, "disconnect")
    /\ IsFailed(PreClient(Owner).auth_state)
    /\ IsSome(Cl(0).event_tx)

\* C12: a disconnect that directly follows a disconnect (the last event emitted
\* before the call is "disconnected" and the AuthState is still Disconnected)
\* returns Ok and leaves every field of the client as the first call left it.
C12_SecondDisconnectChangesNothing ==
    \A p \in Procs :
        (/\ ReturnedFrom(p, "disconnect")
         /\ PreEmitted(p) > 0
         /\ emitted[Tgt(p)][PreEmitted(p)] = DisconnectedEvent
         /\ PreClient(p).auth_state = Disconnected) =>
            /\ proc[p].res = Ok(Unit)
            /\ Me(p) = PreClient(p)
\* the second disconnect has returned on a session that still holds a room
C12_Witness ==
    /\ ReturnedFrom(Owner, "disconnect")
    /\ PreEmitted(Owner) > 0
    /\ emitted[0][PreEmitted(Owner)] = DisconnectedEvent
    /\ PreClient(Owner).auth_state = Disconnected
    /\ Cl(0).chat_rooms # EmptyMap

\* map m without key k, written without remove
Without(m, k) == [x \in DOMAIN m \ {k} |-> m[x]]

\* C13: on a connected session leave_room(room) and remove_contact(jid) return
\* Ok whether or not the key is present; afterwards the key is absent and every
\* other entry and every other field is as before, so with an absent key (a
\* room never joined, or a second application) nothing changes at all.
C13_LeaveAndRemoveIdempotent ==
    \A p \in Procs :
        /\ (ReturnedFrom(p, "leave_room") /\ PreClient(p).is_connected) =>
              /\ proc[p].res = Ok(Unit)
              /\ Me(p) = [PreClient(p) EXCEPT
                             !.chat_rooms = Without(@, proc[p].arg[1])]
              /\ proc[p].arg[1] \notin DOMAIN PreClient(p).chat_rooms =>
                    Me(p) = PreClient(p)
        /\ (ReturnedFrom(p, "remove_contact") /\ PreClient(p).is_connected) =>
              /\ proc[p].res = Ok(Unit)
              /\ Me(p) = [PreClient(p) EXCEPT
                             !.contacts = Without(@, proc[p].arg[1])]
              /\ proc[p].arg[1] \notin DOMAIN PreClient(p).contacts =>
                    Me(p) = PreClient(p)
\* leave_room has returned for a room that was not joined, on a connected
\* session that holds another room
C13_Witness ==
    /\ ReturnedFrom(Owner, "leave_room")
    /\ PreClient(Owner).is_connected
    /\ proc[Owner].arg[1] \notin DOMAIN PreClient(Owner).chat_rooms
    /\ Cl(0).chat_rooms # EmptyMap

\* the operations that require a live connection
RequiresConnection ==
    {"send_message", "send_group_message", "set_presence", "join_room",
     "leave_room", "add_contact", "remove_contact"}
\* the call p made has left the client, the emitted events and the queue of
\* the client's channel as they were when it was made
NothingChanged(p) ==
    /\ Snapshot(Tgt(p)) = proc[p].pre
    /\ Enqueued(p, <<>>)

\* C14: an operation that requires a connection, called on a session that is
\* not connected, never gets past its first check: it returns the
\* ConnectionError "Not connected to server" (send_group_message too, whether
\* or not the room is joined), with the client, the emitted events and the
\* event queue unchanged.
C14_NotConnectedFirst ==
    \A p \in Procs :
        (proc[p].op \in RequiresConnection /\ ~PreClient(p).is_connected) =>
            /\ proc[p].pc \in StartPcs \cup {"op_done"}
            /\ NothingChanged(p)
            /\ proc[p].pc = "op_done" => proc[p].res = NotConnected
\* send_group_message has returned on a session that is not connected and has
\* not joined the room
C14_Witness ==
    /\ ReturnedFrom(Owner, "send_group_message")
    /\ ~PreClient(Owner).is_connected
    /\ proc[Owner].arg[1] \notin DOMAIN PreClient(Owner).chat_rooms
    /\ proc[Owner].res = NotConnected

\* C15: on a connected session send_group_message(room, body) returns Ok iff
\* room is a key of chat_rooms when it is called; otherwise it returns the
\* XmppProtocolError "Not joined to room: <room>". Neither outcome changes the
\* client, the emitted events or the event queue.
C15_GroupSendIffJoined ==
    \A p \in Procs :
        (ReturnedFrom(p, "send_group_message") /\ PreClient(p).is_connected) =>
            /\ IsOk(proc[p].res) <=> proc[p].arg[1] \in DOMAIN PreClient(p).chat_rooms
            /\ IsErr(proc[p].res) => proc[p].res = NotJoined(proc[p].arg[1])
            /\ NothingChanged(p)
\* send_group_message has failed for a room that is not joined, on a connected
\* session that holds another room
C15_Witness ==
    /\ ReturnedFrom(Owner, "send_group_message")
    /\ PreClient(Owner).is_connected
    /\ proc[Owner].res = NotJoined(proc[Owner].arg[1])
    /\ Cl(0).chat_rooms # EmptyMap

\* C16 (as claimed): the message ids returned by successful sends are pairwise
\* distinct.
C16_MessageIdsDistinct ==
    \A i, j \in 1..Len(sent) : i # j => sent[i] # sent[j]

\* the events the callback of channel ch has been invoked with, in order
Received(ch) == ch.got \o ch.cur
\* every event that was sent on channel ch, in order
Sent(ch) == ch.got \o ch.cur \o ch.queue
\* the events client s has emitted since channel ch was created
EmittedSince(s, ch) == SubSeq(emitted[s], ch.since + 1, Len(emitted[s]))
IsPrefix(a, b) == Len(a) <= Len(b) /\ SubSeq(b, 1, Len(a)) = a
\* the channels client 0 has created
Chans == 1..Len(channels[0])

\* the events a callback has received are a prefix of those emitted since it
\* was installed, and the installed callback's channel holds all of them
C17_ReceivedIsPrefix ==
    /\ \A k \in Chans : IsPrefix(Received(channels[0][k]),
                                  EmittedSince(0, channels[0][k]))
    /\ IsSome(Cl(0).event_tx) =>
          LET ch == channels[0][Unwrap(Cl(0).event_tx)]
          IN Sent(ch) = EmittedSince(0, ch)
\* C17: at every moment the events a callback has received are a prefix, in
\* emission order and without duplicates, of the events the session emitted
\* since the callback was installed; and with the delivery tasks scheduled
\* fairly the n-th event sent to a callback is eventually received by it.
C17_InOrderAndEventuallyDelivered ==
    /\ []C17_ReceivedIsPrefix
    /\ \A k \in 1..MaxCallbacks : \A n \in 1..MaxEvents :
          (k \in Chans /\ Len(Sent(channels[0][k])) >= n)
              ~> (k \in Chans /\ Len(channels[0][k].got) >= n)
\* a callback has received connected, the presence update and disconnected,
\* in that order
C17_Witness ==
    \E k \in Chans :
        LET got == channels[0][k].got
        IN /\ Len(got) = 3
           /\ got[1] = <<"ConnectionStateChanged", "connected">>
           /\ got[2][1] = "PresenceUpdated"
           /\ got[3] = DisconnectedEvent

\* C18 (as claimed): at most one callback invocation of a session is in
\* progress at any time.
C18_OneInvocationAtATime ==
    Cardinality({k \in Chans : IsSome(channels[0][k].cur)}) <= 1

\* C19 (as claimed): once set_event_callback has replaced a callback (the
\* sender of its channel is dropped), no invocation of that callback starts.
C19_ReplacedCallbackNeverInvoked ==
    [][\A k \in Chans :
          (~channels[0][k].open /\ channels[0][k].cur = None) =>
              channels'[0][k].cur = None]_vars

\* C20: an operation that emits while the client has no callback returns Ok
\* and no channel exists to hold the event; a channel created later never
\* holds more events than were emitted after its creation, so nothing emitted
\* before is delivered to its callback.
C20_DroppedNotBuffered ==
    /\ \A p \in Procs :
          (/\ proc[p].pc = "op_done"
           /\ PreClient(p).event_tx = None
           /\ Len(emitted[Tgt(p)]) > PreEmitted(p)) =>
              /\ proc[p].res = Ok(Unit)
              /\ channels[Tgt(p)] = <<>>
    /\ \A k \in Chans :
          LET ch == channels[0][k]
          IN /\ Len(Sent(ch)) <= Len(emitted[0]) - ch.since
             /\ Sent(ch) = SubSeq(emitted[0], ch.since + 1, ch.since + Len(Sent(ch)))
\* a callback installed after the session had emitted "connected" has
\* received the presence update, and only that
C20_Witness ==
    /\ Len(channels[0]) = 1
    /\ channels[0][1].since = 1
    /\ emitted[0][1] = <<"ConnectionStateChanged", "connected">>
    /\ Len(channels[0][1].got) = 1
    /\ channels[0][1].got[1][1] = "PresenceUpdated"
    /\ channels[0][1].queue = <<>>

\* the handles createClient has returned
Created == {created[i] : i \in 1..Len(created)}
\* an entry point has just returned value for its call op on handle h
JustReturned(op, h, value) ==
    /\ IsSome(ret)
    /\ ret[1].op = op /\ ret[1].h = h /\ ret[1].value = value
\* the counter, the registry, every client with its channels and events
RegistryState == <<CLIENT_COUNTER, CLIENTS, client, channels, emitted>>

\* at the return of a destroyClient: TRUE means the handle has left the
\* registry and its client is gone; inside a destroyClient that found its
\* handle, the removed client is not connected once disconnect is over; a
\* return on a handle that is not in the registry is the not-found value
C21_DestroyOutcome ==
    /\ \A h \in Handles :
          /\ JustReturned("destroyClient", h, jboolean(TRUE)) =>
                h \notin CLIENTS /\ client[h] = None /\ h \in Created
          /\ (IsSome(ret) /\ ret[1].h = h /\ ret[1].op # "createClient"
                /\ h \notin CLIENTS) =>
                \/ ret[1].value = NotFound(ret[1].op)
                \/ ret[1].op = "destroyClient" /\ ret[1].value = jboolean(TRUE)
    /\ \A t \in Threads :
          (proc[t].op = "destroyClient" /\ proc[t].pc = "op_done") =>
              /\ Tgt(t) \notin CLIENTS
              /\ ~Me(t).is_connected
              /\ Me(t).current_presence = None
\* C21: destroyClient(h) with h in the registry removes h, leaves its client
\* disconnected, drops it and returns TRUE; with h not in the registry it
\* returns FALSE and changes nothing. A removed handle never comes back, so a
\* second destroyClient(h) returns FALSE and every later call on h returns
\* its not-found value.
C21_Destroy ==
    /\ []C21_DestroyOutcome
    /\ [][\A h \in Handles :
            /\ JustReturned("destroyClient", h, jboolean(FALSE))' =>
                  (h \notin CLIENTS /\ UNCHANGED RegistryState)
            /\ (h \in Created /\ h \notin CLIENTS) => h \notin CLIENTS']_vars
\* a second destroyClient on a handle has returned FALSE
C21_Witness ==
    \E h \in Handles :
        /\ JustReturned("destroyClient", h, jboolean(FALSE))
        /\ h \in Created

\* the entry points that take a handle, by the type they return
StringEntryPoints == {"connect", "sendMessage", "getPresence"}
BooleanEntryPoints == {"disconnect", "isConnected", "setPresence", "joinRoom",
                       "destroyClient"}
\* the step is a whole call of an entry point by t on a handle that is not in
\* the registry, returning in that same step
UnknownHandleCall(t) ==
    /\ proc[t].pc = "idle"
    /\ IsSome(ret') /\ ret'[1].t = t
    /\ ret'[1].op \in StringEntryPoints \cup BooleanEntryPoints
    /\ ret'[1].h \notin CLIENTS

\* C22: a call of a per-session entry point with a handle that is not in the
\* registry returns null (connect, sendMessage, getPresence) or false (the
\* others), and leaves the counter, the registry, every client, the locks and
\* every thread as they were.
C22_UnknownHandleReturnsSentinel ==
    [][\A t \in Threads :
          UnknownHandleCall(t) =>
              /\ ret'[1].op \in StringEntryPoints => ret'[1].value = jnull
              /\ ret'[1].op \in BooleanEntryPoints => ret'[1].value = jboolean(FALSE)
              /\ UNCHANGED <<RegistryState, counter_lock, clients_lock, proc,
                             created, sent>>]_vars
\* sendMessage has returned null for a destroyed handle while another client
\* is connected
C22_Witness ==
    \E h, g \in Handles :
        /\ JustReturned("sendMessage", h, jnull)
        /\ h \in Created /\ h \notin CLIENTS
        /\ g \in CLIENTS /\ Cl(g).is_connected

\* C23 (as claimed): what a per-session entry point returns for a handle that
\* is in the registry is never the value it returns for an unknown handle.
C23_NotFoundIsDistinguishable ==
    (/\ IsSome(ret)
     /\ ret[1].op \in StringEntryPoints \cup BooleanEntryPoints
     /\ ret[1].h \in CLIENTS) =>
        ret[1].value \notin {jnull, jboolean(FALSE)}

\* the credentials pass validation and the exchange rejects them
Rejected(creds) ==
    /\ creds.username # <<>> /\ creds.password # <<>>
    /\ ~contains(creds.username, " ") /\ ~contains(creds.username, "@")
    /\ creds.username = S_invalid \/ creds.password = S_wrong

\* C24: when authenticate returns for credentials the exchange rejected, the
\* AuthState is Failed with the reason, and the value returned is Ok of an
\* AuthResult with success = false, no full_jid, no session_id and the same
\* reason as message, which names the invalid username or password.
C24_RejectedIsOkFailure ==
    \A p \in Procs :
        (AuthenticateReturned(p) /\ Rejected(proc[p].arg)) =>
            LET r == proc[p].loc
            IN /\ IsOk(r)
               /\ ~r[2].success
               /\ r[2].full_jid = None
               /\ r[2].session_id = None
               /\ Me(p).auth_state = Failed(r[2].message)
               /\ proc[p].arg.username = S_invalid =>
                     contains(r[2].message, "Invalid username")
               /\ proc[p].arg.username # S_invalid =>
                     contains(r[2].message, "Invalid password")
\* authenticate has returned for ("invalid", "testpass") on a session that
\* was Authenticated
C24_Witness ==
    /\ AuthenticateReturned(Owner)
    /\ proc[Owner].arg.username = S_invalid
    /\ proc[Owner].arg.password = S_testpass
    /\ PreClient(Owner).auth_state = Authenticated

\* C25: connect at the boundary, on a handle that is in the registry, returns
\* the JSON of an AuthResult and never null; when the client's AuthState is
\* Failed on return, the AuthResult has success = false and a message.
C25_ConnectReturnsStructuredResult ==
    \A h \in Handles :
        (IsSome(ret) /\ ret[1].op = "connect" /\ ret[1].h = h /\ h \in CLIENTS) =>
            /\ ret[1].value # jnull
            /\ ret[1].value[1] = "jstring"
            /\ IsFailed(Cl(h).auth_state) =>
                  /\ ~ret[1].value[2].success
                  /\ ret[1].value[2].message # <<>>
                  /\ ret[1].value[2].full_jid = None
            /\ ret[1].value[2].success => Cl(h).auth_state = Authenticated
\* connect has returned a failed AuthResult for an exchange that timed out
C25_Witness ==
    \E h \in Handles :
        /\ IsSome(ret) /\ ret[1].op = "connect" /\ ret[1].h = h /\ h \in CLIENTS
        /\ ~ret[1].value[2].success
        /\ contains(ret[1].value[2].message, "Timeout error: operation timed out after ")

\* the exchange measured by the returned AuthResult ran past auth_timeout
PastTimeout(p) ==
    /\ AuthenticateReturned(p)
    /\ IsOk(proc[p].loc)
    /\ proc[p].loc[2].auth_time_ms > Me(p).config.auth_timeout * 1000
TimeoutReason(cfg) ==
    <<"Authentication failed: ", "Timeout error: operation timed out after ",
      ToString(cfg.auth_timeout), " seconds">>

\* C26 (as claimed): every authenticate whose elapsed time exceeds
\* auth_timeout returns Ok of a failed AuthResult and leaves the AuthState
\* Failed with the timeout reason.
C26_PastTimeoutIsTimeoutFailure ==
    \A p \in Procs :
        (AuthenticateReturned(p) /\ IsOk(validate(proc[p].arg))) =>
            /\ IsOk(proc[p].loc)
            /\ PastTimeout(p) =>
                  /\ ~proc[p].loc[2].success
                  /\ Me(p).auth_state = Failed(TimeoutReason(Me(p).config))
                  /\ proc[p].loc[2].message = TimeoutReason(Me(p).config)

\* the validation rules
ViolatesRule(cfg) ==
    \/ cfg.server = <<>>
    \/ cfg.domain = <<>>
    \/ cfg.port = 0
    \/ cfg.connection_timeout = 0
    \/ cfg.auth_timeout = 0
    \/ cfg.priority \notin -128..127
\* the clients that exist: in the registry, or constructed by a createClient
\* that has not inserted its client yet
Constructed ==
    {Cl(h) : h \in CLIENTS}
    \cup {proc[t].loc[1] : t \in {u \in Threads :
                               proc[u].pc \in {"create_counter", "create_clients"}}}
\* createClient has just returned -1 to a config text that is a config
CreateRejected(text) ==
    /\ IsSome(ret) /\ ret[1].op = "createClient" /\ ret[1].value = jlong(-1)
    /\ ret[1].config_json = text

\* C27 (state part): no client is ever constructed from a config that violates
\* a validation rule, and the handles returned so far are 1, 2, ... without a
\* gap, however many createClient calls failed in between.
C27_NoClientFromInvalidConfig ==
    /\ \A c \in Constructed : ~ViolatesRule(c.config)
    /\ \A i \in 1..Len(created) : created[i] = i
\* C27: createClient with a config that violates a validation rule returns -1
\* and constructs no client; the step that returns -1 changes neither the
\* counter nor the registry nor any session, and takes no lock; a createClient
\* that succeeds returns the counter's value, one more than the handle before.
C27_InvalidConfigRejected ==
    /\ []C27_NoClientFromInvalidConfig
    /\ [][/\ (\E text \in ConfigInputs : CreateRejected(text)') =>
               UNCHANGED <<RegistryState, counter_lock, clients_lock, proc, created>>
           /\ \A h \in Handles :
                 JustReturned("createClient", h, jlong(h))' =>
                    /\ h = CLIENT_COUNTER'
                    /\ created' = Append(created, h)
                    /\ h = Len(created) + 1]_vars
\* createClient has returned -1 for a config with auth_timeout = 0 while a
\* client made earlier is in the registry
C27_Witness ==
    /\ CreateRejected(json([DefaultConfig EXCEPT !.auth_timeout = 0]))
    /\ CLIENTS = {1}
    /\ CLIENT_COUNTER = 1

\* the credentials the claim says validate refuses
Malformed(creds) ==
    \/ creds.username = <<>>
    \/ creds.password = <<>>
    \/ \E i \in 1..Len(creds.username) : creds.username[i] \in {" ", "@"}

\* C28: the validate call at the start of authenticate fails, with
\* InvalidCredentials, exactly when the username is empty, the password is
\* empty or the username contains a space or '@', whatever the domain is; when
\* it fails the AuthState and the rest of the client are as they were, and
\* otherwise authenticate goes on to the exchange.
C28_ValidateFailsExactlyOnMalformed ==
    [][\A p \in Procs :
          (proc[p].pc = "connect" /\ proc'[p].pc # "connect") =>
              IF Malformed(proc[p].arg)
              THEN /\ proc'[p].pc = "auth_returned"
                   /\ IsErr(proc'[p].loc)
                   /\ proc'[p].loc[2] = "InvalidCredentials"
                   /\ Me(p)' = [Me(p) EXCEPT !.auth_lock = Some(p)]
                   /\ UNCHANGED <<channels, emitted, sent>>
              ELSE /\ proc'[p].pc = "perform_authentication"
                   /\ (Me(p).auth_state)' = Connecting]_vars
\* validate has refused a username containing '@' given together with a domain
C28_Witness ==
    /\ AuthenticateReturned(Owner)
    /\ IsErr(proc[Owner].loc)
    /\ proc[Owner].arg = Credentials_with_domain(<<"a", "@", "b">>, S_testpass, S_example)

\* the states in which no authenticate is in progress
AtRest(st) == st \notin {Connecting, Authenticating}
\* a step from AuthState old to AuthState new of session s that the states
\* and the operation in progress allow
AllowedStep(s, old, new) ==
    \/ /\ new = Connecting /\ AtRest(old)
       /\ \E p \in Procs : /\ proc[p].pc = "connect" /\ Tgt(p) = s
                           /\ ~Malformed(proc[p].arg)
    \/ old = Connecting /\ new = Authenticating
    \/ old = Authenticating /\ new = Authenticated
    \/ old = Authenticating /\ IsFailed(new)
    \/ /\ new = Disconnected /\ AtRest(old)
       /\ \E p \in Procs : proc[p].pc = "disconnect" /\ Tgt(p) = s

\* C29: every change of a session's AuthState is one of: to Connecting, from
\* a state at rest, by an authenticate whose credentials pass validation;
\* Connecting to Authenticating; Authenticating to Authenticated or to Failed;
\* to Disconnected, from a state at rest, by disconnect.
C29_AuthStateSteps ==
    [][\A s \in SessionIds :
          (/\ IsSome(client[s]) /\ IsSome(client'[s])
           /\ Cl(s).auth_state # client'[s][1].auth_state)
          => AllowedStep(s, Cl(s).auth_state, client'[s][1].auth_state)]_vars
\* an authenticate that found the session Failed has ended Authenticated
C29_Witness ==
    /\ AuthenticateReturned(Owner)
    /\ IsFailed(PreClient(Owner).auth_state)
    /\ Cl(0).auth_state = Authenticated

RoomsWithJid(c, room_jid) ==
    {k \in DOMAIN c.chat_rooms : c.chat_rooms[k].jid = room_jid}

\* C31: when join_room(room, nick) returns on a session that was connected,
\* it returns Ok; the rooms hold exactly one entry for room, under key room,
\* with joined = true and nick among its participants, whether or not room
\* was a key before; every other room, the roster, the presence, the
\* connected flag and the AuthState are as the call found them.
C31_JoinRoomOverwrites ==
    \A p \in Procs :
        (ReturnedFrom(p, "join_room") /\ PreClient(p).is_connected) =>
            LET room == proc[p].arg[1]
                nick == proc[p].arg[2]
                pre == PreClient(p)
                c == Me(p)
            IN /\ IsOk(proc[p].res)
               /\ RoomsWithJid(c, room) = {room}
               /\ c.chat_rooms[room].joined
               /\ contains(c.chat_rooms[room].participants, nick)
               /\ DOMAIN c.chat_rooms = DOMAIN pre.chat_rooms \cup {room}
               /\ \A k \in DOMAIN pre.chat_rooms \ {room} :
                     c.chat_rooms[k] = pre.chat_rooms[k]
               /\ c.contacts = pre.contacts
               /\ c.current_presence = pre.current_presence
               /\ c.is_connected = pre.is_connected
               /\ c.auth_state = pre.auth_state
\* a room joined under one nickname has been joined again under another,
\* while a second room is joined
C31_Witness ==
    /\ ReturnedFrom(Owner, "join_room")
    /\ IsOk(proc[Owner].res)
    /\ proc[Owner].arg[1] \in DOMAIN PreClient(Owner).chat_rooms
    /\ ~contains(PreClient(Owner).chat_rooms[proc[Owner].arg[1]].participants,
                 proc[Owner].arg[2])
    /\ Cardinality(DOMAIN Cl(0).chat_rooms) = 2

\* the calls that hold the lock the call of t is waiting for
WaitsOn(t) ==
    {u \in Procs :
        \/ proc[t].pc = "create_counter" /\ counter_lock = Some(u)
        \/ proc[t].pc = "create_clients" /\ clients_lock = Some(u)
        \/ /\ proc[t].pc \in {"connect", "disconnect"}
           /\ IsSome(client[Tgt(t)])
           /\ Me(t).auth_lock = Some(u)}
\* no set of calls in which each waits for a lock held by a call of the set
NoWaitCycle ==
    \A S \in SUBSET Procs \ {{}} : \E t \in S : WaitsOn(t) \cap S = {}

C33_ReturnedJidIsPresenceJid ==
    \A h \in Handles :
        (/\ IsSome(ret) /\ ret[1].op = "connect" /\ ret[1].h = h /\ h \in CLIENTS
         /\ ret[1].value # jnull /\ ret[1].value[2].success) =>
            /\ IsSome(Cl(h).current_presence)
            /\ ret[1].value[2].full_jid = Some(Unwrap(Cl(h).current_presence).jid)

\* everything the session under handle g owns: the client with its AuthState,
\* connected flag, presence, roster and rooms; its event queues with what its
\* callbacks received; the events emitted for it
SessionState(g) == <<client[g], channels[g], emitted[g]>>
\* this step belongs to a call of thread t that is addressed to handle g, or
\* to the createClient that stores a new client under g
StepOn(t, g) ==
    /\ proc'[t] # proc[t]
    /\ \/ proc[t].pc \notin {"idle", "create_counter", "create_clients"} /\ Tgt(t) = g
       \/ proc[t].pc = "idle" /\ proc'[t].op # "createClient" /\ proc'[t].h = g
       \/ proc[t].pc = "create_clients" /\ proc[t].loc[2] = g

\* C34: a step changes the session stored under a handle only if it belongs
\* to a call addressed to that handle (or creates the session); so a call on
\* one handle leaves the client, the event queues, the received events and
\* the emitted events of every other handle unchanged.
C34_OtherSessionsUnchanged ==
    [][\A g \in Handles :
          SessionState(g)' # SessionState(g) =>
              /\ \E t \in Threads : StepOn(t, g)
              /\ \A h \in Handles \ {g} : UNCHANGED SessionState(h)]_vars
\* joinRoom on handle 1 has returned true while the session under handle 2
\* is connected, with the presence its connect gave it and no room
C34_Witness ==
    /\ JustReturned("joinRoom", 1, jboolean(TRUE))
    /\ CLIENTS = {1, 2}
    /\ Cl(1).chat_rooms # EmptyMap
    /\ Cl(2).is_connected
    /\ Unwrap(Cl(2).current_presence).status = "Available"
    /\ Cl(2).chat_rooms = EmptyMap
    /\ Len(emitted[2]) = 1

\* the delivery task of channel k of client 0 has left its loop: the sender
\* is gone, nothing is queued, no callback invocation is in progress
Terminated(k) ==
    /\ ~channels[0][k].open
    /\ channels[0][k].queue = <<>>
    /\ channels[0][k].cur = None

\* C35: once the client is dropped, and the delivery tasks keep being
\* scheduled, every delivery task of the client terminates; and a task that
\* has terminated never invokes its callback again: what its callback has
\* received stays as it is.
C35_QueueTornDown ==
    /\ (client[0] = None) ~> (\A k \in 1..Len(channels[0]) : Terminated(k))
    /\ [][\A k \in 1..Len(channels[0]) :
             Terminated(k) => channels'[0][k] = channels[0][k]]_vars
\* the client was dropped with a callback installed; its task has delivered
\* the events sent to it and has terminated
C35_Witness ==
    /\ client[0] = None
    /\ Len(channels[0]) >= 1
    /\ Terminated(Len(channels[0]))
    /\ Len(channels[0][Len(channels[0])].got) >= 2
====
